---- MODULE Spec2Model ----
(***************************************************************************)
(* Model of website_monitor.py: one WebsiteMonitor check per process       *)
(* invocation (main -> run_check), the state file state/last_hash.txt      *)
(* shared by all invocations, the monitored site and the Telegram          *)
(* notifier.  Every access of an invocation to the outside world (browser, *)
(* Telegram, state file) is one step, so that invocations may be run one   *)
(* after another (Spec) or overlapping (SpecOverlap).                      *)
(***************************************************************************)
EXTENDS Integers, Sequences, FiniteSets, TLC

\* ------------------------------------------------------------------ bounds

\* Invocations that may exist at the same time.
NumProcs == 2

\* Hex characters of a digest (hashlib.md5 gives 32; the model keeps fewer).
DigestHexLen == 2

Procs == 1..NumProcs

\* ------------------------------------------------------------- primitives

\* Python's None, and the state file not existing; both are kept apart from
\* every text (a sequence of characters or tokens).
None == <<"None">>
Absent == <<"Absent">>

BodyOpen == "<body>"
BodyClose == "</body>"

\* The documents the monitored URL may serve, as sequences of markup tokens:
\* two with the same body under different wrappers, one with another body,
\* one without a body element, and the empty document.
Sites == { <<"h", BodyOpen, "x", BodyClose>>, <<"g", BodyOpen, "x", BodyClose>>, <<"h", BodyOpen, "y", BodyClose>>, <<"x", "y">>, <<>> }

HexDigits == <<"0", "1", "2", "3", "4", "5", "6", "7", "8", "9", "a", "b", "c", "d", "e", "f">>

Whitespace == {" ", "\n"}

\* content.encode('utf-8'): the byte value standing for each token.
Encode(tok) == CASE tok = "h" -> 104 [] tok = "g" -> 103 [] tok = "x" -> 120 [] tok = "y" -> 121 [] tok = BodyOpen -> 60 [] tok = BodyClose -> 62 [] OTHER -> 63

\* Position of the first tok in s at or after position from; 0 when none.
RECURSIVE FirstIndex(_, _, _)
FirstIndex(s, tok, from) == IF from > Len(s) THEN 0 ELSE IF s[from] = tok THEN from ELSE FirstIndex(s, tok, from + 1)

\* soup.find('body') and str(body): the first body element, closed at its end
\* tag or, when the end tag is missing, at the end of the document.
BodyElement(html) ==
    LET i == FirstIndex(html, BodyOpen, 1)
        j == FirstIndex(html, BodyClose, i + 1)
        inner == IF j = 0 THEN SubSeq(html, i + 1, Len(html)) ELSE SubSeq(html, i + 1, j - 1)
    IN  IF i = 0 THEN None ELSE <<BodyOpen>> \o inner \o <<BodyClose>>

\* A normalisation that keeps the whole document.
extract_relevant_content_Whole(html_content) == IF html_content = None THEN <<>> ELSE html_content

extract_relevant_content(html_content) ==
    IF html_content = None \/ html_content = <<>> THEN <<>>
    ELSE IF BodyElement(html_content) # None THEN BodyElement(html_content)
    ELSE html_content

\* The digest as a number: a polynomial hash of the bytes, DigestHexLen hex
\* digits wide (standing for MD5's 128 bits).
RECURSIVE Digest(_)
Digest(bytes) == IF bytes = <<>> THEN 7 ELSE (Digest(SubSeq(bytes, 1, Len(bytes) - 1)) * 33 + Encode(bytes[Len(bytes)])) % (16 ^ DigestHexLen)

\* hexdigest(): n written with DigestHexLen hex digits.
RECURSIVE HexDigest(_, _)
HexDigest(n, width) == IF width = 0 THEN <<>> ELSE HexDigest(n \div 16, width - 1) \o <<HexDigits[(n % 16) + 1]>>

calculate_hash(content) == HexDigest(Digest(content), DigestHexLen)

\* str.strip(): leading and trailing whitespace removed.
RECURSIVE Strip(_)
Strip(s) ==
    IF s = <<>> THEN s
    ELSE IF s[1] \in Whitespace THEN Strip(Tail(s))
    ELSE IF s[Len(s)] \in Whitespace THEN Strip(SubSeq(s, 1, Len(s) - 1))
    ELSE s

\* Python truthiness of an optional string: None and "" are falsy.
IsFalsy(value) == value = None \/ value = <<>>

\* A run_check that goes on whatever get_page_content returned.
NoContent_Never(content) == FALSE

\* `if not content:` in run_check.
NoContent(content) == IsFalsy(content)

\* os.getenv of WEBSITE_URL, BOT_TOKEN and CHAT_ID: unset, empty or set.
EnvValues_Set == <<"s", "e", "t">>
EnvValues == {None, <<>>, EnvValues_Set}

\* A check for unset variables only, which lets an empty value through.
ConfigComplete_UnsetOnly(url, token, chat) == \A v \in {url, token, chat} : v # None

\* all([WEBSITE_URL, BOT_TOKEN, CHAT_ID]) in main: every value set and non-empty.
ConfigComplete(url, token, chat) == \A v \in {url, token, chat} : ~IsFalsy(v)

\* ------------------------------------------------------------------ state

VARIABLES
    schedule,       \* how the external invoker starts runs: "serial" or "overlapping"
    site,           \* the document the monitored URL serves at present
    dirExists,      \* whether the directory state/ exists
    file,           \* state/last_hash.txt: Absent, or its text
    lastWrite,      \* how the text of file came to be written (history)
    prev,           \* summary of the run that ended last, kept for serial runs (history)
    pc,             \* per invocation: where it is in main / run_check
    config,         \* per invocation: the environment main read, kept for serial runs
    snapshot,       \* per invocation: what get_page_content returned, kept for serial runs
    current_hash,   \* per invocation: run_check's current_hash
    last_hash,      \* per invocation: self.last_hash
    storeAtStart,   \* per invocation: file as it was when the run started (history)
    outcome,        \* per invocation: the path on which the run ended
    log             \* per invocation: its calls on the collaborators, in order

vars == <<schedule, site, dirExists, file, lastWrite, prev, pc, config, snapshot, current_hash, last_hash, storeAtStart, outcome, log>>

procVars == <<pc, config, snapshot, current_hash, last_hash, storeAtStart, outcome, log>>

\* One call on a collaborator or comparison: op is "fetch", "load", "compare", "notify",
\* "makedirs" or "save"; kind is the message class of a notify and "-" otherwise; res is
\* the call's result.
Event(op, kind, res) == [op |-> op, kind |-> kind, res |-> res]

NoWrite == [hash |-> None, ok |-> FALSE, loaded |-> "none", delivered |-> FALSE]
NoPrev == [outcome |-> "none", snapshot |-> None, hash |-> None, last |-> None, started |-> Absent, store |-> Absent]

NoConfig == <<None, None, None>>

\* What is recorded of a run for the claims about serial runs only.
Kept(value, otherwise) == IF schedule = "serial" THEN value ELSE otherwise

\* Invocations one after another: p may step while no other is under way.
Alone(p) == \A q \in Procs \ {p} : pc[q] = "idle"

MayStep(p) == schedule = "serial" => Alone(p)

InitRest ==
    /\ site \in Sites
    /\ dirExists = FALSE
    /\ file = Absent
    /\ lastWrite = NoWrite
    /\ prev = NoPrev
    /\ pc = [p \in Procs |-> "idle"]
    /\ config = [p \in Procs |-> NoConfig]
    /\ snapshot = [p \in Procs |-> None]
    /\ current_hash = [p \in Procs |-> None]
    /\ last_hash = [p \in Procs |-> None]
    /\ storeAtStart = [p \in Procs |-> None]
    /\ outcome = [p \in Procs |-> "none"]
    /\ log = [p \in Procs |-> <<>>]

Init == schedule = "serial" /\ InitRest

InitOverlap == schedule = "overlapping" /\ InitRest

\* ----------------------------------------------------------- collaborators

\* load_last_hash: the file does not exist, is read, or exists and raises.
LoadResults(f) == IF f = Absent THEN {"absent"} ELSE {"ok", "ioerror"}

\* A load for which an empty file is no file, `f.read().strip() or None`.
load_last_hash_OrNone(f, res) == IF res = "ok" /\ Strip(f) # <<>> THEN Strip(f) ELSE None

\* A load that returns the text as it is in the file.
load_last_hash_Raw(f, res) == IF res = "ok" THEN f ELSE None

load_last_hash(f, res) == IF res = "ok" THEN Strip(f) ELSE None

\* A save_hash that leaves the directory to its caller.
makedirs_Skipped(exists, made) == exists

\* os.makedirs(os.path.dirname(path), exist_ok=True): whether the directory
\* exists after the call, which returned (made = "ok") or raised.
makedirs(exists, made) == exists \/ made = "ok"

MakedirsResults == {"ok", "error"}

\* save_hash: written; failed in makedirs or open (the file is as before);
\* failed in write after open(..., 'w') had truncated the file.
SaveResults == {"ok", "not_opened", "truncated"}

\* What save_hash can come to after makedirs: nothing is opened after
\* makedirs raised, nor in a directory that does not exist.
OpenResults(exists, made) == IF exists /\ made = "ok" THEN SaveResults ELSE {"not_opened"}

\* A save that does not overwrite a file that exists already.
save_hash_NoOverwrite(f, hash_value, res) == IF f = Absent /\ res = "ok" THEN hash_value ELSE f

save_hash(f, hash_value, res) == CASE res = "ok" -> hash_value [] res = "not_opened" -> f [] res = "truncated" -> <<>>

\* What the guarded calls raise, by class: the browser driver, the file
\* system, and requests (no connection; raise_for_status on a non-2xx answer).
FetcherFaults == {"WebDriverException"}
StoreFaults == {"OSError"}
RequestExceptions == {"ConnectionError", "HTTPError"}
NotifierFaults == RequestExceptions
Exceptions == FetcherFaults \cup StoreFaults \cup RequestExceptions

\* `except Exception` in get_page_content, load_last_hash and save_hash.
CaughtByFetch(exc) == exc \in Exceptions
CaughtByLoad(exc) == exc \in Exceptions
CaughtBySave(exc) == exc \in Exceptions

\* A notifier that handles the status check only.
CaughtBySend_HTTPOnly(exc) == exc = "HTTPError"

\* `except requests.RequestException` in send_telegram_message.
CaughtBySend(exc) == exc \in RequestExceptions

\* One call of send_telegram_message: the request goes through, or raises.
SendOutcomes == {"sent"} \cup NotifierFaults

SendReturns(out) == out = "sent" \/ CaughtBySend(out)

\* The boolean send_telegram_message returns when it returns.
send_telegram_message(out) == out = "sent"

\* A commit that does not look at the notifier's answer.
CommitAfterNotify_Always(sent) == TRUE

\* `if self.send_telegram_message(message):` guards the commit of a change.
CommitAfterNotify(sent) == sent

\* A first-run test by truthiness, `if not self.last_hash:`.
IsFirstRun_OrEmpty(last) == IsFalsy(last)

\* `self.last_hash is None` selects the first-run branch.
IsFirstRun(last) == last = None

\* A comparison that always reports a change.
HasChanged_Always(current, last) == TRUE

\* `current_hash != self.last_hash`.
HasChanged(current, last) == current # last

\* The message classes of the three texts run_check and get_page_content send.
ErrorMessage == "MONITOR ERROR"
ChangeMessage == "WEBSITE CHANGED!"

\* A first run that reports a change.
StartMessage_AsChange == ChangeMessage

StartMessage == "Website Monitor (Selenium) Started"

\* A check that starts over instead of returning (a monitoring loop).
Finish_Loop(p, how) ==
    /\ pc' = [pc EXCEPT ![p] = "fetch"]
    /\ outcome' = [outcome EXCEPT ![p] = how]

\* run_check (or main) returns.
Finish(p, how) ==
    /\ pc' = [pc EXCEPT ![p] = "done"]
    /\ outcome' = [outcome EXCEPT ![p] = how]

Logged(p, events) == log' = [log EXCEPT ![p] = log[p] \o events]

\* An exception no handler caught leaves run_check and main.
Unhandled(p, exc) ==
    /\ Logged(p, <<Event("fault", "-", exc)>>)
    /\ Finish(p, "unhandled")

DeliveredChange(p) == \E i \in 1..Len(log[p]) : log[p][i] = Event("notify", ChangeMessage, TRUE)

LoadResult(p) == IF \E i \in 1..Len(log[p]) : log[p][i].op = "load" THEN (CHOOSE e \in {log[p][i] : i \in 1..Len(log[p])} : e.op = "load").res ELSE "none"

Written(p, res) ==
    IF res = "not_opened" THEN UNCHANGED lastWrite
    ELSE lastWrite' = [hash |-> current_hash[p], ok |-> res = "ok", loaded |-> LoadResult(p), delivered |-> DeliveredChange(p)]

\* -------------------------------------------------------------- invocation

\* main: read the environment; without a complete configuration, return.
Start(p) ==
    /\ MayStep(p)
    /\ pc[p] = "idle"
    /\ \E url \in EnvValues, token \in EnvValues, chat \in EnvValues :
          /\ config' = [config EXCEPT ![p] = Kept(<<url, token, chat>>, NoConfig)]
          /\ IF ConfigComplete(url, token, chat)
             THEN pc' = [pc EXCEPT ![p] = "fetch"] /\ UNCHANGED outcome
             ELSE Finish(p, "config_error")
    /\ storeAtStart' = [storeAtStart EXCEPT ![p] = file]
    /\ UNCHANGED <<schedule, site, dirExists, file, lastWrite, prev, snapshot, current_hash, last_hash, log>>

\* run_check after get_page_content returned content: stop on no content,
\* otherwise compute current_hash and go on to the state file.
AfterFetch(p, fetched, stopped) ==
    IF NoContent(fetched)
    THEN Finish(p, stopped) /\ UNCHANGED current_hash
    ELSE /\ pc' = [pc EXCEPT ![p] = "load"]
         /\ current_hash' = [current_hash EXCEPT ![p] = calculate_hash(extract_relevant_content(fetched))]
         /\ UNCHANGED outcome

\* get_page_content returns driver.page_source.
FetchPage(p) ==
    /\ MayStep(p)
    /\ pc[p] = "fetch"
    /\ Logged(p, <<Event("fetch", "-", "ok")>>)
    /\ snapshot' = [snapshot EXCEPT ![p] = Kept(site, None)]
    /\ AfterFetch(p, site, "empty")
    /\ UNCHANGED <<schedule, site, dirExists, file, lastWrite, prev, config, last_hash, storeAtStart>>

\* get_page_content raises inside its try: the error message is sent (its
\* result is not looked at) and None is returned.
FetchFails(p) ==
    /\ MayStep(p)
    /\ pc[p] = "fetch"
    /\ \E exc \in FetcherFaults, out \in SendOutcomes :
          IF CaughtByFetch(exc) /\ SendReturns(out)
          THEN /\ Logged(p, <<Event("fetch", "-", "error"), Event("notify", ErrorMessage, send_telegram_message(out))>>)
               /\ AfterFetch(p, None, "fetch_failed")
          ELSE Unhandled(p, IF CaughtByFetch(exc) THEN out ELSE exc) /\ UNCHANGED current_hash
    /\ UNCHANGED <<schedule, site, dirExists, file, lastWrite, prev, config, snapshot, last_hash, storeAtStart>>

\* self.last_hash = self.load_last_hash()
LoadLastHash(p) ==
    /\ MayStep(p)
    /\ pc[p] = "load"
    /\ \E res \in LoadResults(file), exc \in StoreFaults :
          IF res = "ioerror" => CaughtByLoad(exc)
          THEN /\ last_hash' = [last_hash EXCEPT ![p] = load_last_hash(file, res)]
               /\ Logged(p, <<Event("load", "-", res)>>)
               /\ pc' = [pc EXCEPT ![p] = "branch"]
               /\ UNCHANGED outcome
          ELSE Unhandled(p, exc) /\ UNCHANGED last_hash
    /\ UNCHANGED <<schedule, site, dirExists, file, lastWrite, prev, config, snapshot, current_hash, storeAtStart>>

\* First-run branch: save_hash(current_hash).
SaveBaseline(p) ==
    /\ MayStep(p)
    /\ pc[p] = "branch"
    /\ IsFirstRun(last_hash[p])
    /\ \E made \in MakedirsResults, exc \in StoreFaults :
       \E res \in OpenResults(makedirs(dirExists, made), made) :
          /\ dirExists' = makedirs(dirExists, made)
          /\ file' = save_hash(file, current_hash[p], res)
          /\ Written(p, res)
          /\ IF res # "ok" => CaughtBySave(exc)
             THEN /\ Logged(p, <<Event("makedirs", "-", made), Event("save", "-", res)>>)
                  /\ pc' = [pc EXCEPT ![p] = "announce"]
                  /\ UNCHANGED outcome
             ELSE Unhandled(p, exc)
    /\ UNCHANGED <<schedule, site, prev, config, snapshot, current_hash, last_hash, storeAtStart>>

\* First-run branch: the "Started" message, sent whatever save_hash did.
Announce(p) ==
    /\ MayStep(p)
    /\ pc[p] = "announce"
    /\ \E out \in SendOutcomes :
          IF SendReturns(out)
          THEN Logged(p, <<Event("notify", StartMessage, send_telegram_message(out))>>) /\ Finish(p, "baselined")
          ELSE Unhandled(p, out)
    /\ UNCHANGED <<schedule, site, dirExists, file, lastWrite, prev, config, snapshot, current_hash, last_hash, storeAtStart>>

\* Changed branch: the change message; only a sent one leads to the commit.
NotifyChange(p) ==
    /\ MayStep(p)
    /\ pc[p] = "branch"
    /\ ~IsFirstRun(last_hash[p])
    /\ HasChanged(current_hash[p], last_hash[p])
    /\ \E out \in SendOutcomes :
          IF SendReturns(out)
          THEN /\ Logged(p, <<Event("compare", "-", "changed"), Event("notify", ChangeMessage, send_telegram_message(out))>>)
               /\ IF CommitAfterNotify(send_telegram_message(out))
                  THEN pc' = [pc EXCEPT ![p] = "commit"] /\ UNCHANGED outcome
                  ELSE Finish(p, "notify_failed")
          ELSE Unhandled(p, out)
    /\ UNCHANGED <<schedule, site, dirExists, file, lastWrite, prev, config, snapshot, current_hash, last_hash, storeAtStart>>

\* Changed branch: save_hash(current_hash) after the message was sent.
SaveChange(p) ==
    /\ MayStep(p)
    /\ pc[p] = "commit"
    /\ \E made \in MakedirsResults, exc \in StoreFaults :
       \E res \in OpenResults(makedirs(dirExists, made), made) :
          /\ dirExists' = makedirs(dirExists, made)
          /\ file' = save_hash(file, current_hash[p], res)
          /\ Written(p, res)
          /\ IF res # "ok" => CaughtBySave(exc)
             THEN Logged(p, <<Event("makedirs", "-", made), Event("save", "-", res)>>) /\ Finish(p, "changed")
             ELSE Unhandled(p, exc)
    /\ UNCHANGED <<schedule, site, prev, config, snapshot, current_hash, last_hash, storeAtStart>>

\* An unchanged branch that writes the state file again.
NoChange_Rewrite(p) ==
    /\ MayStep(p)
    /\ pc[p] = "branch"
    /\ ~IsFirstRun(last_hash[p])
    /\ ~HasChanged(current_hash[p], last_hash[p])
    /\ file' = save_hash(file, current_hash[p], "ok")
    /\ Written(p, "ok")
    /\ Logged(p, <<Event("compare", "-", "same"), Event("makedirs", "-", "ok"), Event("save", "-", "ok")>>)
    /\ Finish(p, "unchanged")
    /\ UNCHANGED <<schedule, site, dirExists, prev, config, snapshot, current_hash, last_hash, storeAtStart>>

\* Unchanged branch: "No changes detected."
NoChange(p) ==
    /\ MayStep(p)
    /\ pc[p] = "branch"
    /\ ~IsFirstRun(last_hash[p])
    /\ ~HasChanged(current_hash[p], last_hash[p])
    /\ Logged(p, <<Event("compare", "-", "same")>>)
    /\ Finish(p, "unchanged")
    /\ UNCHANGED <<schedule, site, dirExists, file, lastWrite, prev, config, snapshot, current_hash, last_hash, storeAtStart>>

\* The process is gone: nothing of the WebsiteMonitor object outlives it.
Leave(p, how) ==
    /\ prev' = Kept([outcome |-> how, snapshot |-> snapshot[p], hash |-> current_hash[p], last |-> last_hash[p], started |-> storeAtStart[p], store |-> file], prev)
    /\ pc' = [pc EXCEPT ![p] = "idle"]
    /\ config' = [config EXCEPT ![p] = NoConfig]
    /\ snapshot' = [snapshot EXCEPT ![p] = None]
    /\ current_hash' = [current_hash EXCEPT ![p] = None]
    /\ last_hash' = [last_hash EXCEPT ![p] = None]
    /\ storeAtStart' = [storeAtStart EXCEPT ![p] = None]
    /\ outcome' = [outcome EXCEPT ![p] = "none"]
    /\ log' = [log EXCEPT ![p] = <<>>]

\* The process is killed between two of its steps.
Crash(p) ==
    /\ MayStep(p)
    /\ pc[p] \in {"fetch", "load", "branch", "announce", "commit"}
    /\ Leave(p, "crashed")
    /\ UNCHANGED <<schedule, site, dirExists, file, lastWrite>>

\* main returns and the process ends.
Exit(p) ==
    /\ MayStep(p)
    /\ pc[p] = "done"
    /\ Leave(p, outcome[p])
    /\ UNCHANGED <<schedule, site, dirExists, file, lastWrite>>

Run(p) ==
    \/ Start(p)
    \/ FetchPage(p)
    \/ FetchFails(p)
    \/ LoadLastHash(p)
    \/ SaveBaseline(p)
    \/ Announce(p)
    \/ NotifyChange(p)
    \/ SaveChange(p)
    \/ NoChange(p)
    \/ Crash(p)
    \/ Exit(p)

\* ------------------------------------------------------------- environment

\* The monitored site serves another document.
SiteChange ==
    /\ \E s \in Sites \ {site} : site' = s
    /\ UNCHANGED <<schedule, dirExists, file, lastWrite, prev, procVars>>

\* The state file is removed from outside, between invocations.
ClearStore ==
    /\ file # Absent
    /\ \A p \in Procs : pc[p] = "idle"
    /\ file' = Absent
    /\ lastWrite' = NoWrite
    /\ UNCHANGED <<schedule, site, dirExists, prev, procVars>>

Next ==
    \/ SiteChange
    \/ ClearStore
    \/ \E p \in Procs : Run(p)

\* Runs started one after another, as the scheduled workflow does.
Spec == Init /\ [][Next]_vars

\* Runs that may overlap on the state file.
SpecOverlap == InitOverlap /\ [][Next]_vars

\* The state file is saved from outside with a newline at its end (an
\* editor, or a tool that restores the file), between invocations.
TouchStore ==
    /\ file # Absent
    /\ IF file = <<>> THEN TRUE ELSE file[Len(file)] \notin Whitespace
    /\ \A p \in Procs : pc[p] = "idle"
    /\ file' = file \o <<"\n">>
    /\ UNCHANGED <<schedule, site, dirExists, lastWrite, prev, procVars>>

NextStore == Next \/ TouchStore

\* Serial runs on a state file that is also touched from outside.
SpecStore == Init /\ [][NextStore]_vars

\* The fingerprint a run computes of the document served at present.
SiteFingerprint == calculate_hash(extract_relevant_content(site))

\* A target that has been monitored before and now keeps serving one
\* document: the state file holds the fingerprint that an earlier first run
\* wrote of some document, which may or may not be the one served now.
InitLive ==
    /\ schedule = "serial"
    /\ site \in Sites \ {<<>>}
    /\ file \in {calculate_hash(extract_relevant_content(s)) : s \in Sites \ {<<>>}}
    /\ dirExists = TRUE
    /\ lastWrite = [hash |-> file, ok |-> TRUE, loaded |-> "absent", delivered |-> FALSE]
    /\ prev = NoPrev
    /\ pc = [p \in Procs |-> "idle"]
    /\ config = [p \in Procs |-> NoConfig]
    /\ snapshot = [p \in Procs |-> None]
    /\ current_hash = [p \in Procs |-> None]
    /\ last_hash = [p \in Procs |-> None]
    /\ storeAtStart = [p \in Procs |-> None]
    /\ outcome = [p \in Procs |-> "none"]
    /\ log = [p \in Procs |-> <<>>]

\* Runs only: the site keeps its document and nobody clears the state file.
NextLive == \E p \in Procs : Run(p)

\* The scheduler goes on starting runs, and each of these succeeds again and
\* again: a start with a complete environment, the fetch, the read of the
\* state file, the change notification, and the write of the state file.
LiveFairness ==
    /\ WF_vars(NextLive)
    /\ SF_vars(\E p \in Procs : Start(p) /\ pc'[p] = "fetch")
    /\ SF_vars(\E p \in Procs : FetchPage(p))
    /\ SF_vars(\E p \in Procs : LoadLastHash(p) /\ last_hash'[p] # None)
    /\ SF_vars(\E p \in Procs : NotifyChange(p) /\ pc'[p] = "commit")
    /\ SF_vars(\E p \in Procs : (SaveBaseline(p) \/ SaveChange(p)) /\ file' = current_hash[p])

\* Serial runs on a site that stays as it is, under the fairness above.
SpecLive == InitLive /\ [][NextLive]_vars /\ LiveFairness

\* ------------------------------------------------------ reading a run's log

Events(p) == {log[p][i] : i \in 1..Len(log[p])}

\* Positions of the notification attempts of a message class, of every
\* notification attempt, of the store writes and of the comparisons.
NotifyAttempts(p, kind) == {i \in 1..Len(log[p]) : log[p][i].op = "notify" /\ log[p][i].kind = kind}
Notifies(p) == {i \in 1..Len(log[p]) : log[p][i].op = "notify"}
Saves(p) == {i \in 1..Len(log[p]) : log[p][i].op = "save"}
Compares(p) == {i \in 1..Len(log[p]) : log[p][i].op = "compare"}
Loads(p) == {i \in 1..Len(log[p]) : log[p][i].op = "load"}
Fetches(p) == {i \in 1..Len(log[p]) : log[p][i].op = "fetch"}

\* run_check has returned (the process was not killed).
Ended(p) == pc[p] = "done"

\* The run loaded a prior fingerprint P and computed a different F.
Changed(p) == last_hash[p] # None /\ current_hash[p] # None /\ current_hash[p] # last_hash[p]

\* ------------------------------------------------------------------ claims

\* C1 (failed-notification non-commit): a run that loaded a prior fingerprint
\* P, computed F # P and got failure from the notifier ends with the state
\* file as it was and without a store write; and when the run before ended
\* that way, a run that computes the same F and loads the same P attempts the
\* change notification again.
C1_FailedNotifyNoCommit ==
    \A p \in Procs :
        /\ (Ended(p) /\ Changed(p) /\ Event("notify", ChangeMessage, FALSE) \in Events(p))
              => (file = storeAtStart[p] /\ Saves(p) = {})
        /\ (Ended(p) /\ prev.outcome = "notify_failed" /\ current_hash[p] = prev.hash /\ last_hash[p] = prev.last)
              => NotifyAttempts(p, ChangeMessage) # {}

\* C1 witness: a run whose change notification failed, right after a run on
\* the same content whose change notification failed as well.
C1_Witness ==
    \E p \in Procs :
        /\ Ended(p) /\ Changed(p)
        /\ prev.outcome = "notify_failed" /\ current_hash[p] = prev.hash /\ last_hash[p] = prev.last
        /\ Event("notify", ChangeMessage, FALSE) \in Events(p)
        /\ file = prev.store

\* C2 (notify-then-commit ordering): the state file goes from one
\* fingerprint to another only in a step of a run that has had its change
\* notification reported delivered.
C2_NotifyThenCommit ==
    [][(file \notin {Absent, <<>>} /\ file' \notin {Absent, <<>>} /\ file' # file)
          => \E p \in Procs : DeliveredChange(p) /\ log'[p] # log[p]]_vars

\* C3 as stated (change detection): a run that loaded F1, computed F2 # F1
\* and had its change notification delivered ends with the state file
\* holding F2 and with exactly one change notification sent.
C3_Original ==
    \A p \in Procs :
        (Ended(p) /\ Changed(p) /\ DeliveredChange(p))
            => (file = current_hash[p] /\ Cardinality(NotifyAttempts(p, ChangeMessage)) = 1)

\* C3 amended: the same, for a run whose store write succeeded; the one
\* change notification is then the only message of the run.
C3_ChangeCommitted ==
    \A p \in Procs :
        (Ended(p) /\ Changed(p) /\ DeliveredChange(p) /\ Event("save", "-", "ok") \in Events(p))
            => /\ file = current_hash[p]
               /\ Cardinality(NotifyAttempts(p, ChangeMessage)) = 1
               /\ Cardinality(Notifies(p)) = 1

\* C3 witness: a run that found F1 in the store, notified the change to F2
\* and committed F2.
C3_Witness ==
    \E p \in Procs :
        /\ Ended(p) /\ Changed(p) /\ DeliveredChange(p)
        /\ storeAtStart[p] = last_hash[p]
        /\ Event("save", "-", "ok") \in Events(p)
        /\ file = current_hash[p]

\* C4 (unchanged short-circuit): a run that loaded F1 and computed F1 sends
\* no notification, writes nothing, and leaves the state file as it was,
\* holding F1.
C4_UnchangedShortCircuit ==
    \A p \in Procs :
        (last_hash[p] # None /\ current_hash[p] = last_hash[p])
            => /\ Notifies(p) = {}
               /\ Saves(p) = {}
               /\ file = storeAtStart[p]
               /\ Strip(file) = current_hash[p]

\* C4 witness: a run that ended on the unchanged path after one comparison.
C4_Witness ==
    \E p \in Procs :
        /\ Ended(p) /\ outcome[p] = "unchanged"
        /\ last_hash[p] # None /\ current_hash[p] = last_hash[p]
        /\ Cardinality(Compares(p)) = 1

\* C5 as stated (silent baseline): a run that starts with no state file and
\* fetches content ends with the state file holding the content's
\* fingerprint and with no notification sent.
C5_Original ==
    \A p \in Procs :
        (Ended(p) /\ storeAtStart[p] = Absent /\ current_hash[p] # None)
            => (file = current_hash[p] /\ Notifies(p) = {})

\* C5 amended (announced baseline): such a run makes no comparison, writes
\* the store once, attempts exactly one notification, of the "Started"
\* class, and when its write succeeded ends with the state file holding the
\* content's fingerprint.
C5_AnnouncedBaseline ==
    \A p \in Procs :
        (Ended(p) /\ storeAtStart[p] = Absent /\ current_hash[p] # None)
            => /\ Compares(p) = {}
               /\ Cardinality(Saves(p)) = 1
               /\ Cardinality(Notifies(p)) = 1
               /\ Cardinality(NotifyAttempts(p, StartMessage)) = 1
               /\ NotifyAttempts(p, ChangeMessage) = {}
               /\ Event("save", "-", "ok") \in Events(p) => file = current_hash[p]

\* C5 witness: the second of two runs on the same content, each started
\* with no state file and each ending with the fingerprint committed.
C5_Witness ==
    \E p \in Procs :
        /\ Ended(p) /\ storeAtStart[p] = Absent /\ current_hash[p] # None
        /\ file = current_hash[p]
        /\ prev.outcome = "baselined" /\ prev.started = Absent
        /\ prev.hash = current_hash[p] /\ prev.store = prev.hash

\* C6 (fetch failure isolation): a run whose fetch raised has ended, with the
\* state file as it was at its start, without load, comparison or store
\* write, and with exactly one notification attempt, of the error class,
\* whose wording is not the change message's.
C6_FetchFailureIsolation ==
    \A p \in Procs :
        Event("fetch", "-", "error") \in Events(p)
            => /\ Ended(p) /\ outcome[p] = "fetch_failed"
               /\ file = storeAtStart[p]
               /\ Loads(p) = {} /\ Compares(p) = {} /\ Saves(p) = {}
               /\ last_hash[p] = None /\ current_hash[p] = None
               /\ Cardinality(Notifies(p)) = 1
               /\ Cardinality(NotifyAttempts(p, ErrorMessage)) = 1
               /\ ErrorMessage # ChangeMessage

\* C6 witness: a fetch failure in a run that started with a fingerprint in
\* the state file.
C6_Witness ==
    \E p \in Procs :
        /\ Ended(p) /\ Event("fetch", "-", "error") \in Events(p)
        /\ storeAtStart[p] \notin {Absent, <<>>}
        /\ file = storeAtStart[p]

\* C7 (empty snapshot is reported): a run whose fetch returned without error
\* but with no content ends without a comparison and with an error-class
\* message attempted.
C7_EmptyReported ==
    \A p \in Procs :
        (Ended(p) /\ Event("fetch", "-", "ok") \in Events(p) /\ current_hash[p] = None)
            => (Compares(p) = {} /\ NotifyAttempts(p, ErrorMessage) # {})

\* C8 (store read failure aborts the run): a run whose load raised on a
\* state file that holds a fingerprint writes nothing, leaves the state file
\* as it was and attempts no "Started" notification.
C8_ReadFailureAborts ==
    \A p \in Procs :
        (Event("load", "-", "ioerror") \in Events(p) /\ storeAtStart[p] \notin {Absent, <<>>})
            => (Saves(p) = {} /\ file = storeAtStart[p] /\ NotifyAttempts(p, StartMessage) = {})

\* C9 (persisted-state invariant): a state file that holds a text holds the
\* fingerprint computed by the run that wrote it, and that run either found
\* no state file or had its change notification delivered.  (An existing
\* but empty file is counted with the absent one.)
C9_PersistedInvariant ==
    file \notin {Absent, <<>>}
        => (file = lastWrite.hash /\ (lastWrite.loaded = "absent" \/ lastWrite.delivered))

\* C10 (overlapping invocations are safe): two runs are never both between
\* a delivered change notification and its commit for the same change, from
\* the same P to the same F.
C10_OverlapSafe ==
    \A p \in Procs : \A q \in Procs \ {p} :
        ~ /\ pc[p] = "commit" /\ pc[q] = "commit"
          /\ DeliveredChange(p) /\ DeliveredChange(q)
          /\ last_hash[p] = last_hash[q] /\ last_hash[p] # <<>>
          /\ current_hash[p] = current_hash[q]

\* C11 (configuration gate): a run whose environment lacks one of the three
\* values, or holds an empty one, has ended on the configuration error with
\* no call on any collaborator (no fetch, no notification, no load, no save)
\* and with the state file as it was.
C11_ConfigGate ==
    \A p \in Procs :
        (pc[p] # "idle" /\ \E i \in 1..3 : config[p][i] \in {None, <<>>})
            => /\ Ended(p) /\ outcome[p] = "config_error"
               /\ log[p] = <<>>
               /\ current_hash[p] = None /\ last_hash[p] = None
               /\ file = storeAtStart[p]

\* C11 witness: a run stopped by an empty token alone, with a fingerprint in
\* the state file.
C11_Witness ==
    \E p \in Procs :
        /\ Ended(p) /\ outcome[p] = "config_error"
        /\ config[p] = <<EnvValues_Set, <<>>, EnvValues_Set>>
        /\ storeAtStart[p] \notin {Absent, <<>>}
        /\ file = storeAtStart[p]

\* Order of the places of a run: every step of a run moves it forward.
Rank(place) == CASE place = "idle" -> 0 [] place = "fetch" -> 1 [] place = "load" -> 2 [] place = "branch" -> 3 [] place = "announce" -> 4 [] place = "commit" -> 4 [] place = "done" -> 5

\* C12 (per-run bounds): on every path a run makes at most one fetch, one
\* load, one comparison, one notification attempt and one store write (so no
\* failed call is made again); every call moves the run to a later place of
\* run_check, and from every place the only way back is the end of the
\* process: a run is over after a bounded number of steps.
C12_PerRunBounds ==
    /\ [](\A p \in Procs :
            /\ Cardinality(Fetches(p)) <= 1
            /\ Cardinality(Loads(p)) <= 1
            /\ Cardinality(Compares(p)) <= 1
            /\ Cardinality(Notifies(p)) <= 1
            /\ Cardinality(Saves(p)) <= 1)
    /\ [][\A p \in Procs :
            /\ log'[p] # log[p] => pc'[p] # pc[p]
            /\ pc'[p] # pc[p] => (Rank(pc'[p]) > Rank(pc[p]) \/ pc'[p] = "idle")]_vars

\* C12 witness: a run that ended after one fetch, one load, one comparison,
\* one failed notification attempt and nothing more.
C12_Witness ==
    \E p \in Procs :
        /\ Ended(p) /\ outcome[p] = "notify_failed"
        /\ Cardinality(Fetches(p)) = 1 /\ Cardinality(Loads(p)) = 1
        /\ Cardinality(Compares(p)) = 1 /\ Cardinality(Notifies(p)) = 1
        /\ Len(log[p]) = 4

\* C13 as stated (announced baseline is one-time): of two runs that follow
\* one another with the state file untouched between them, at most one
\* attempts the "Started" notification (counted here only for a later run
\* that found the file missing, so not one whose read of the file failed).
C13_Original ==
    \A p \in Procs :
        ~ /\ prev.outcome = "baselined"
          /\ storeAtStart[p] = prev.store
          /\ LoadResult(p) = "absent"
          /\ NotifyAttempts(p, StartMessage) # {}

\* C13 amended: a run attempts the "Started" notification exactly when it
\* loaded and got no prior fingerprint, once, after its one store write
\* whatever became of that write; so a run that follows a committed baseline
\* and reads it back does not attempt it.
C13_AnnouncedWithoutBaseline ==
    \A p \in Procs :
        Ended(p) =>
            /\ NotifyAttempts(p, StartMessage) # {} <=> (Loads(p) # {} /\ last_hash[p] = None)
            /\ Cardinality(NotifyAttempts(p, StartMessage)) <= 1
            /\ \A i \in NotifyAttempts(p, StartMessage) : Saves(p) = {i - 1}
            /\ (prev.outcome = "baselined" /\ prev.store = prev.hash /\ storeAtStart[p] = prev.store /\ LoadResult(p) = "ok")
                  => NotifyAttempts(p, StartMessage) = {}

\* C13 witness: a second "Started" attempt in a row, in a run whose own
\* baseline write failed as well.
C13_Witness ==
    \E p \in Procs :
        /\ Ended(p) /\ NotifyAttempts(p, StartMessage) # {}
        /\ Event("save", "-", "not_opened") \in Events(p)
        /\ prev.outcome = "baselined" /\ storeAtStart[p] = prev.store

\* C14 (no unhandled fault): no run ends with an exception that left
\* run_check; a fetch that raised ends the run on the fetch-failure path with
\* the error message attempted, a read or write of the state file that
\* raised is followed by the run's next step, and every notification attempt
\* is recorded with the boolean the notifier returned.
C14_NoUnhandledFault ==
    \A p \in Procs :
        /\ outcome[p] # "unhandled" /\ prev.outcome # "unhandled"
        /\ \A e \in Events(p) : e.op # "fault" /\ (e.op = "notify" => e.res \in BOOLEAN)
        /\ (Ended(p) /\ Event("fetch", "-", "error") \in Events(p))
              => (outcome[p] = "fetch_failed" /\ NotifyAttempts(p, ErrorMessage) # {})
        /\ (Ended(p) /\ LoadResult(p) = "ioerror") => outcome[p] = "baselined"
        /\ (Ended(p) /\ \E i \in Saves(p) : log[p][i].res # "ok") => outcome[p] \in {"baselined", "changed"}

\* C14 witness: a run in which the read of the state file, the write of it and
\* the notification all failed, and which returned all the same.
C14_Witness ==
    \E p \in Procs :
        /\ Ended(p) /\ outcome[p] = "baselined"
        /\ LoadResult(p) = "ioerror"
        /\ Event("save", "-", "truncated") \in Events(p)
        /\ Event("notify", StartMessage, FALSE) \in Events(p)

\* The normalized content of a snapshot, said without reference to the code:
\* the body region (from the first body start tag to the first body end tag
\* after it, or to the end of the document) when there is one, else all of it.
BodyStarts(doc) == {i \in 1..Len(doc) : doc[i] = BodyOpen}
BodyEnds(doc, i) == {j \in (i + 1)..Len(doc) : doc[j] = BodyClose}
Least(S) == CHOOSE n \in S : \A m \in S : n <= m
Normalized(doc) ==
    IF BodyStarts(doc) = {} THEN doc
    ELSE LET i == Least(BodyStarts(doc))
             j == IF BodyEnds(doc, i) = {} THEN Len(doc) + 1 ELSE Least(BodyEnds(doc, i))
         IN  [k \in 1..(j - i + 1) |-> IF k = j - i + 1 THEN BodyClose ELSE doc[i + k - 1]]

IsFingerprint(text) == Len(text) = DigestHexLen /\ \A k \in 1..Len(text) : \E d \in 1..16 : text[k] = HexDigits[d]

\* C15 (fingerprint determinism and normalization): a run that fetched a
\* non-empty snapshot has a fingerprint, a well-formed digest, which is that
\* of the snapshot's normalized content; and it has the fingerprint of the
\* run before whenever the two snapshots have the same normalized content.
C15_FingerprintOfNormalized ==
    \A p \in Procs :
        (snapshot[p] \notin {None, <<>>}) =>
            /\ IsFingerprint(current_hash[p])
            /\ current_hash[p] = calculate_hash(Normalized(snapshot[p]))
            /\ (prev.snapshot \notin {None, <<>>} /\ Normalized(prev.snapshot) = Normalized(snapshot[p]))
                  => current_hash[p] = prev.hash

\* C15 witness: two runs in a row on different documents with the same body
\* region, and so with one fingerprint.
C15_Witness ==
    \E p \in Procs :
        /\ snapshot[p] \notin {None, <<>>} /\ prev.snapshot \notin {None, <<>>}
        /\ snapshot[p] # prev.snapshot
        /\ Normalized(prev.snapshot) = Normalized(snapshot[p])
        /\ Normalized(snapshot[p]) # snapshot[p]
        /\ current_hash[p] = prev.hash

\* C16 (eventual commit of a persistent change): with serial runs, the site
\* staying at a document of fingerprint F and the state file holding another
\* text, eventually the state file holds F, written by a run whose change
\* notification was delivered.
C16_EventualCommit ==
    (file # Absent /\ file # SiteFingerprint)
        ~> (file = SiteFingerprint /\ lastWrite.hash = SiteFingerprint /\ lastWrite.delivered)

\* C17 (store round trip): while the last write of the state file is a
\* save_hash(F) that succeeded, the file holds F and nothing else but
\* whitespace around it, and a run that loads the file gets exactly F,
\* whatever the file held before that write; a save that succeeded was
\* preceded by makedirs, and the directory exists after every makedirs that
\* returned and whenever the file exists.
C17_StoreRoundTrip ==
    /\ lastWrite.ok => (IsFingerprint(lastWrite.hash) /\ Strip(file) = lastWrite.hash)
    /\ file # Absent => dirExists
    /\ \A p \in Procs :
          /\ (LoadResult(p) = "ok" /\ Saves(p) = {} /\ lastWrite.ok) => last_hash[p] = lastWrite.hash
          /\ \A i \in Saves(p) : log[p][i].res = "ok" => log[p][i - 1] = Event("makedirs", "-", "ok")
          /\ Event("makedirs", "-", "ok") \in Events(p) => dirExists

\* C17 witness: a run loads F from a file that the run before wrote over
\* another fingerprint and that has got a newline at its end since.
C17_Witness ==
    \E p \in Procs :
        /\ LoadResult(p) = "ok" /\ Saves(p) = {} /\ lastWrite.ok
        /\ prev.outcome = "changed" /\ prev.hash = lastWrite.hash /\ IsFingerprint(prev.started)
        /\ file # lastWrite.hash
        /\ last_hash[p] = lastWrite.hash

\* C18 (when a change is notified): a run that has ended attempted the change
\* notification exactly if it got content, read the state file, and the
\* trimmed text of the file, empty or not, is not the fingerprint it
\* computed; a run that found no state file attempts none at any time.
C18_ChangeNotifiedIff ==
    \A p \in Procs :
        /\ Ended(p) =>
              (NotifyAttempts(p, ChangeMessage) # {}
                  <=> (current_hash[p] # None /\ LoadResult(p) = "ok" /\ Strip(storeAtStart[p]) # current_hash[p]))
        /\ (pc[p] # "idle" /\ storeAtStart[p] = Absent) => NotifyAttempts(p, ChangeMessage) = {}

\* C18 witness: a change notification of a run that read an empty state file.
C18_Witness ==
    \E p \in Procs :
        /\ Ended(p) /\ storeAtStart[p] = <<>> /\ LoadResult(p) = "ok"
        /\ last_hash[p] = <<>>
        /\ NotifyAttempts(p, ChangeMessage) # {}

\* The paths on which a run ends without having called save_hash.
NoWritePaths == {"config_error", "fetch_failed", "empty", "unchanged", "notify_failed"}

\* C19 (who writes the state file): a run calls save_hash at most once and
\* only after a fetch that returned content, and a run that ended on a path
\* without a write has left the file as it found it; the file changes only
\* by being removed from outside or in a step of a run that has fetched
\* content and not written before, and then to that run's fingerprint (or,
\* the write failing after the file was opened, to the empty text).
C19_WritesOnlyByRuns ==
    /\ [](\A p \in Procs :
            /\ Cardinality(Saves(p)) <= 1
            /\ Saves(p) # {} => (Event("fetch", "-", "ok") \in Events(p) /\ snapshot[p] \notin {None, <<>>} /\ IsFingerprint(current_hash[p]))
            /\ (Ended(p) /\ outcome[p] \in NoWritePaths) => (Saves(p) = {} /\ file = storeAtStart[p]))
    /\ [][file' # file =>
             \/ file' = Absent /\ \A p \in Procs : pc[p] = "idle"
             \/ \E p \in Procs :
                   /\ Event("fetch", "-", "ok") \in Events(p) /\ snapshot[p] \notin {None, <<>>}
                   /\ Saves(p) = {} /\ log'[p] # log[p]
                   /\ file' \in {current_hash[p], <<>>}
                   /\ Event("save", "-", "ok") \in {log'[p][i] : i \in 1..Len(log'[p])} => file' = current_hash[p]]_vars

\* C19 witness: a run that ended without a change to report, after a run that
\* wrote the fingerprint it had computed over another one.
C19_Witness ==
    \E p \in Procs :
        /\ Ended(p) /\ outcome[p] = "unchanged" /\ Saves(p) = {}
        /\ file = storeAtStart[p] /\ file = current_hash[p]
        /\ prev.outcome = "changed" /\ prev.store = prev.hash /\ IsFingerprint(prev.started)

====
